---------------------------- MODULE Spec2Model ----------------------------
(***************************************************************************)
(* pure_decimal: Decimal, a finite-only wrapper around decimal::d128       *)
(* (IEEE 754-2008 decimal128 as implemented by decNumber's decQuad).       *)
(*                                                                         *)
(* A d128 is modelled by value: a record                                   *)
(*    [k |-> "fin", s |-> sign, c |-> coefficient, e |-> exponent]         *)
(*    [k |-> "inf", s |-> sign, c |-> << >>, e |-> 0]                      *)
(*    [k |-> "nan" or "snan", s |-> sign, c |-> payload, e |-> 0]          *)
(* where a coefficient is the sequence of its decimal digits, most         *)
(* significant first, without leading zeros (zero is the empty sequence):  *)
(* 34-digit coefficients do not fit a machine integer.  Text is a sequence *)
(* of one-character strings.                                               *)
(*                                                                         *)
(* An intermediate result that is used more than once is handed on as an   *)
(* argument to the operator that takes the next step of the computation.   *)
(***************************************************************************)
EXTENDS Integers, Sequences, FiniteSets, Bags, TLC

\* decimal128 format parameters of d128: precision, largest and smallest
\* adjusted exponent.
DECQUAD_Pmax == 34
DECQUAD_Emax == 6144
DECQUAD_Emin == -6143
Etiny == DECQUAD_Emin - (DECQUAD_Pmax - 1)
Etop == DECQUAD_Emax - (DECQUAD_Pmax - 1)

(***************************************************************************)
(* Natural numbers as digit sequences.                                     *)
(***************************************************************************)
\* Carries are propagated over groups of eight (addition, subtraction), four
\* (multiplication by a small number) or three (multiplication) digits held
\* in a machine integer.
Front(s) == SubSeq(s, 1, Len(s) - 1)
Last(s) == s[Len(s)]
Max2(a, b) == IF a >= b THEN a ELSE b
Min2(a, b) == IF a <= b THEN a ELSE b
MinOf(S) == CHOOSE i \in S : \A j \in S : i <= j
MaxOf(S) == CHOOSE i \in S : \A j \in S : i >= j

\* the function f on 1..n as a sequence value
Tup(f) == f \o << >>

\* b, once a has been computed: a value is otherwise computed where it is
\* first used, nested within that computation
After(a, b) == IF a = a THEN b ELSE b

Zeros(n) == Tup([i \in 1..n |-> 0])

AllZero(s) == \A i \in 1..Len(s) : s[i] = 0

\* the first position of s that holds a nonzero digit
FirstNonzero(s) ==
    CHOOSE i \in 1..Len(s) : s[i] /= 0 /\ \A j \in 1..(i - 1) : s[j] = 0

\* leading zeros removed
Strip(s) ==
    IF AllZero(s) THEN << >> ELSE SubSeq(s, FirstNonzero(s), Len(s))

\* -1, 0, 1 as x < y, x = y, x > y
Sign3(x, y) == IF x < y THEN -1 ELSE IF x > y THEN 1 ELSE 0

\* comparison at position i
LexAt(a, b, i) == Sign3(a[i], b[i])

\* lexicographic comparison of sequences of the same length: -1, 0, 1, at
\* the first position where a and b differ
LexCmp(a, b) ==
    IF a = b THEN 0
    ELSE LexAt(a, b, CHOOSE i \in 1..Len(a) :
                        a[i] /= b[i] /\ \A j \in 1..(i - 1) : a[j] = b[j])

\* -1, 0, 1 as a < b, a = b, a > b
NCmp(a, b) == IF Len(a) = Len(b) THEN LexCmp(a, b) ELSE Sign3(Len(a), Len(b))

Pow10 == <<1, 10, 100, 1000, 10000, 100000, 1000000, 10000000, 100000000,
          1000000000>>

RECURSIVE DigitsNat(_)
DigitsNat(s) == IF s = << >> THEN 0 ELSE DigitsNat(Front(s)) * 10 + Last(s)

RECURSIVE NatDigits(_)
NatDigits(n) == IF n = 0 THEN << >> ELSE Append(NatDigits(n \div 10), n % 10)

\* s padded with leading zeros to n groups of w digits, the values of the
\* groups (1 is the most significant), and the digits of n groups of w digits
Padded(s, n, w) == Zeros(n * w - Len(s)) \o s
Group3(sp, j) == sp[j + 1] * 100 + (sp[j + 2] * 10 + sp[j + 3])
Group4(sp, j) ==
    (sp[j + 1] * 1000 + sp[j + 2] * 100) + (sp[j + 3] * 10 + sp[j + 4])
Group8(sp, j) == Group4(sp, j) * 10000 + Group4(sp, j + 4)
GroupsOf(sp, n, w) ==
    After(sp, Tup([i \in 1..n |->
                     IF w = 8 THEN Group8(sp, 8 * (i - 1))
                     ELSE IF w = 4 THEN Group4(sp, 4 * (i - 1))
                     ELSE Group3(sp, 3 * (i - 1))]))
Groups(s, n, w) == GroupsOf(Padded(s, n, w), n, w)
Ungroup(g, n, w) ==
    Tup([j \in 1..(n * w) |->
            (g[(j - 1) \div w + 1] \div Pow10[w - ((j - 1) % w)]) % 10])

\* the carry into group i - 1 of the group sums S: a group from i on
\* overflows behind groups that are full
AddCarry(S, n, i) ==
    IF \E j \in i..n : /\ S[j] >= Pow10[9]
                       /\ \A k \in i..(j - 1) : S[k] = Pow10[9] - 1
    THEN 1 ELSE 0

\* the digits of the group sums S with their carries
AddSums(S, n) ==
    After(S, Strip(<<AddCarry(S, n, 1)>> \o
          Ungroup(Tup([i \in 1..n |-> (S[i] + AddCarry(S, n, i + 1)) % Pow10[9]]),
                  n, 8)))

AddGroups(A, B, n) ==
    After(A, After(B, AddSums(Tup([i \in 1..n |-> A[i] + B[i]]), n)))
AddIn(a, b, n) == AddGroups(Groups(a, n, 8), Groups(b, n, 8), n)

\* a + b
NAdd(a, b) == AddIn(a, b, (Max2(Len(a), Len(b)) + 7) \div 8)

\* the borrow from group i - 1 of the group differences D
SubBorrow(D, n, i) ==
    IF \E j \in i..n : /\ D[j] < 0
                       /\ \A k \in i..(j - 1) : D[k] = 0
    THEN 1 ELSE 0

SubDiffs(D, n) ==
    After(D, Strip(Ungroup(Tup([i \in 1..n |->
                         (D[i] - SubBorrow(D, n, i + 1) + Pow10[9]) % Pow10[9]]),
                  n, 8)))

SubGroups(A, B, n) ==
    After(A, After(B, SubDiffs(Tup([i \in 1..n |-> A[i] - B[i]]), n)))
SubIn(a, b, n) == SubGroups(Groups(a, n, 8), Groups(b, n, 8), n)

\* a - b for a >= b
NSub(a, b) == SubIn(a, b, (Len(a) + 7) \div 8)

\* a * m for m < 10^4: the products of the groups of four digits, their low
\* halves added to their high halves one group up
MulSmallGroups(A, m, n) ==
    After(A, NAdd(Strip(Ungroup(Tup([i \in 1..n |-> (A[i] * m) % Pow10[5]]), n, 4)),
         Strip(Ungroup(Tup([i \in 1..n |-> (A[i] * m) \div Pow10[5]]), n, 4)
               \o Zeros(4))))
MulSmallIn(a, m, n) == MulSmallGroups(Groups(a, n, 4), m, n)
NMulSmall(a, m) == MulSmallIn(a, m, (Len(a) + 3) \div 4)

NShift(a, n) == IF a = << >> THEN << >> ELSE a \o Zeros(n)


\* f[lo] + ... + f[hi], by halves
RECURSIVE SumTo(_, _, _)
SumTo(f, lo, hi) ==
    IF lo > hi THEN 0
    ELSE IF lo = hi THEN f[lo]
    ELSE SumTo(f, lo, (lo + hi) \div 2) + SumTo(f, (lo + hi) \div 2 + 1, hi)

\* a * b: the columns of the products of the groups of three digits, each
\* column split into its base-1000 digits, which are added up in place
MulPart(Col, n, d) ==
    NShift(Strip(Ungroup(Tup([k \in 1..n |->
                                (Col[k] \div Pow10[3 * d + 1]) % Pow10[4]]),
                         n, 3)),
           3 * d)
MulCols(Col, n) ==
    After(Col, NAdd(NAdd(MulPart(Col, n, 0), MulPart(Col, n, 1)), MulPart(Col, n, 2)))
MulGroups(A, B, n, m) ==
    After(A, After(B, MulCols(Tup([k \in 1..(n + m - 1) |->
                   SumTo([i \in 1..n |-> A[i] * B[k + 1 - i]],
                         Max2(1, k + 1 - m), Min2(n, k))]),
            n + m - 1)))
MulIn(a, b, n, m) == MulGroups(Groups(a, n, 3), Groups(b, m, 3), n, m)
NMul(a, b) ==
    IF a = << >> \/ b = << >> THEN << >>
    ELSE MulIn(a, b, (Len(a) + 2) \div 3, (Len(b) + 2) \div 3)

\* the multiples 1 b, ..., 9 b
Multiples(b) == Tup([k \in 1..9 |-> NMulSmall(b, k)])

\* r less n times b, m holding the multiples of b
CountOff(r, m, n) == After(n, [n |-> n, r |-> IF n = 0 THEN r ELSE NSub(r, m[n])])

\* how often b goes into r, for r < 10 * b, and what is left
CountSub(r, m) == CountOff(r, m, Cardinality({k \in 1..9 : NCmp(m[k], r) <= 0}))

\* one step of long division of a: digit st.i of the dividend is brought
\* down to the remainder st.r, the next quotient digit t.n joins st.q
DivPut(st, t) == After(t, [q |-> Append(st.q, t.n), r |-> t.r, i |-> st.i + 1])
DivStep(st, a, m) == DivPut(st, CountSub(Strip(Append(st.r, a[st.i])), m))

\* up to k steps while digits are left
RECURSIVE DivRun(_, _, _, _)
DivRun(st, a, m, k) ==
    IF k = 0 \/ st.i > Len(a) THEN st
    ELSE DivRun(DivStep(st, a, m), a, m, k - 1)

\* four digits a time
RECURSIVE LongDiv(_, _, _)
LongDiv(st, a, m) ==
    IF st.i > Len(a) THEN st ELSE LongDiv(DivRun(st, a, m, 4), a, m)

DivResult(t) == After(t, [q |-> Strip(t.q), r |-> t.r])

\* m: the multiples of the divisor
DivBy(a, m) ==
    After(m, DivResult(LongDiv([q |-> << >>, r |-> << >>, i |-> 1], a, m)))

\* quotient and remainder of a by b, b /= 0
NDivMod(a, b) == DivBy(a, Multiples(b))

(***************************************************************************)
(* d128 values and decQuad's rounding of an exact result (decFinalize):    *)
(* round-half-even to 34 digits, subnormals down to Etiny, overflow to     *)
(* Infinity, and exponent clamping (fold-down) above Etop.                 *)
(***************************************************************************)
Fin(s, c, e) == [k |-> "fin", s |-> s, c |-> c, e |-> e]
Inf(s) == [k |-> "inf", s |-> s, c |-> << >>, e |-> 0]
NaN == [k |-> "nan", s |-> 0, c |-> << >>, e |-> 0]

\* keep, rounded up when the discarded digits disc (and what follows them,
\* more) are over a half, or are a half and keep is odd
RoundHalfEven(keep, disc, more) ==
    IF disc[1] > 5 \/
       (disc[1] = 5 /\ (more \/ (keep /= << >> /\ Last(keep) % 2 = 1)))
    THEN NAdd(keep, <<1>>) ELSE keep

\* c with its last `drop` digits rounded away, half-even; `sticky` says that
\* nonzero digits follow beyond c.
RoundDigits(c, drop, sticky) ==
    IF drop <= 0 THEN c
    ELSE IF drop > Len(c) THEN << >>
    ELSE RoundHalfEven(SubSeq(c, 1, Len(c) - drop),
                       SubSeq(c, Len(c) - drop + 1, Len(c)),
                       sticky \/ ~AllZero(SubSeq(c, Len(c) - drop + 2, Len(c))))

\* the rounded coefficient r at exponent ex: overflow, or clamped above etop
FinishRange(s, r, ex, etop) ==
    IF r = << >> THEN Fin(s, << >>, ex)
    ELSE IF ex + Len(r) - 1 > DECQUAD_Emax THEN Inf(s)
    ELSE IF ex > etop THEN Fin(s, r \o Zeros(ex - etop), etop)
    ELSE Fin(s, r, ex)

\* a carry out of the top digit gives p + 1 digits, the last one 0
FinishCarry(p, s, r0, e) ==
    IF Len(r0) > p
    THEN FinishRange(s, Front(r0), e + 1, DECQUAD_Emax - (p - 1))
    ELSE FinishRange(s, r0, e, DECQUAD_Emax - (p - 1))

FinishDrop(p, s, c, e, sticky, drop) ==
    FinishCarry(p, s, RoundDigits(c, drop, sticky), e + drop)

\* decFinalize at working precision p (34 for every decQuad operation; the
\* integer-power path of decNumberPower works at a few digits more).
decFinalizeP(p, s, c, e, sticky) ==
    IF c = << >> /\ ~sticky
    THEN Fin(s, << >>, Max2(DECQUAD_Emin - (p - 1),
                            Min2(e, DECQUAD_Emax - (p - 1))))
    ELSE FinishDrop(p, s, c, e, sticky,
                    Max2(0, Max2(Len(c) - p, DECQUAD_Emin - (p - 1) - e)))

decFinalize(s, c, e, sticky) == decFinalizeP(DECQUAD_Pmax, s, c, e, sticky)

is_nan(v) == v.k \in {"nan", "snan"}
is_infinite(v) == v.k = "inf"
is_finite(v) == v.k = "fin"
d128_is_zero(v) == v.k = "fin" /\ v.c = << >>
d128_is_negative(v) == v.s = 1 /\ ~d128_is_zero(v) /\ ~is_nan(v)

Xor(s1, s2) == IF s1 = s2 THEN 0 ELSE 1
Flip(s) == 1 - s

\* src made a quiet NaN; sign and payload kept
Quiet(src) == [k |-> "nan", s |-> src.s, c |-> src.c, e |-> 0]

\* decNaNs: the result of an operation with a NaN operand: the first
\* signalling NaN, else the first NaN, made quiet.
decNaNs(a, b) ==
    Quiet(IF a.k = "snan" THEN a
          ELSE IF b.k = "snan" THEN b
          ELSE IF a.k = "nan" THEN a ELSE b)

\* digits of the coefficient as decNumber counts them (zero has one)
Digits(c) == IF c = << >> THEN 1 ELSE Len(c)
Adjusted(v) == v.e + Digits(v.c) - 1

\* Exact sum of two finite values rounded once to p digits.  H and cl are
\* the coefficients at the common exponent el, cmp compares them.
AddAligned(p, shi, H, slo, cl, el, cmp) ==
    decFinalizeP(p,
                 IF shi = slo \/ cmp > 0 THEN shi ELSE IF cmp < 0 THEN slo ELSE 0,
                 IF shi = slo THEN NAdd(H, cl)
                 ELSE IF cmp = 0 THEN << >>
                 ELSE NSub(IF cmp > 0 THEN H ELSE cl, IF cmp > 0 THEN cl ELSE H),
                 el, FALSE)

AddShifted(p, shi, H, slo, cl, el) ==
    AddAligned(p, shi, H, slo, cl, el, NCmp(H, cl))

\* An operand too small to reach the rounding position (far) is replaced by
\* one unit far below it (decNumber's sticky digit), which keeps the padding
\* bounded.
AddFar(p, hi, lo, far) ==
    AddShifted(p, hi.s,
               NShift(hi.c, hi.e - (IF far THEN hi.e - (p + 3) ELSE lo.e)),
               lo.s,
               IF far /\ lo.c /= << >> THEN <<1>> ELSE lo.c,
               IF far THEN hi.e - (p + 3) ELSE lo.e)

\* hi has the larger exponent
AddOrdered(p, hi, lo) ==
    AddFar(p, hi, lo, hi.c /= << >> /\ hi.e - lo.e >= Len(lo.c) + p + 3)

AddRounded(p, x, y) ==
    AddOrdered(p, IF x.e >= y.e THEN x ELSE y, IF x.e >= y.e THEN y ELSE x)

\* decQuadAdd
d128_add(a, b) ==
    IF is_nan(a) \/ is_nan(b) THEN decNaNs(a, b)
    ELSE IF is_infinite(a) THEN
        (IF is_infinite(b) /\ a.s /= b.s THEN NaN ELSE Inf(a.s))
    ELSE IF is_infinite(b) THEN Inf(b.s)
    ELSE AddRounded(DECQUAD_Pmax, a, b)

\* decQuadSubtract: the addition of the right operand with its sign flipped
d128_sub(a, b) ==
    IF is_nan(a) \/ is_nan(b) THEN decNaNs(a, b)
    ELSE d128_add(a, [b EXCEPT !.s = Flip(b.s)])

\* decQuadMultiply
d128_mul(a, b) ==
    IF is_nan(a) \/ is_nan(b) THEN decNaNs(a, b)
    ELSE IF is_infinite(a) \/ is_infinite(b) THEN
        (IF d128_is_zero(a) \/ d128_is_zero(b) THEN NaN ELSE Inf(Xor(a.s, b.s)))
    ELSE decFinalize(Xor(a.s, b.s), NMul(a.c, b.c), a.e + b.e, FALSE)

\* decQuadFMA: a * b + c, the product exact, one rounding
d128_mul_add(a, b, c) ==
    IF a.k = "snan" \/ b.k = "snan" THEN decNaNs(a, b)
    ELSE IF c.k = "snan" THEN decNaNs(c, c)
    ELSE IF is_nan(a) \/ is_nan(b) THEN decNaNs(a, b)
    ELSE IF is_nan(c) THEN decNaNs(c, c)
    ELSE IF is_infinite(a) \/ is_infinite(b) THEN
        (IF d128_is_zero(a) \/ d128_is_zero(b) THEN NaN
         ELSE IF is_infinite(c) /\ c.s /= Xor(a.s, b.s) THEN NaN
         ELSE Inf(Xor(a.s, b.s)))
    ELSE IF is_infinite(c) THEN Inf(c.s)
    ELSE AddRounded(DECQUAD_Pmax,
                    Fin(Xor(a.s, b.s), NMul(a.c, b.c), a.e + b.e), c)

\* c less its n last digits, the exponent n up
Shorten(c, e, n) == [c |-> SubSeq(c, 1, Len(c) - n), e |-> e + n]

\* trailing zeros of c, the positions nz holding its nonzero digits
TrailingZeros(c, nz) == IF nz = {} THEN 0 ELSE Len(c) - MaxOf(nz)

\* trailing zeros of an exact quotient removed while the exponent is below
\* the ideal one
StripTo(c, e, ideal) ==
    Shorten(c, e,
            Max2(0, Min2(TrailingZeros(c, {i \in 1..Len(c) : c[i] /= 0}),
                         ideal - e)))

DivFinish(p, s, t, sticky) == decFinalizeP(p, s, t.c, t.e, sticky)

\* the integer quotient and remainder qr at exponent e: the remainder is the
\* sticky digit; an exact quotient goes back towards the ideal exponent
DivQuotient(p, s, qr, e, ideal) ==
    DivFinish(p, s,
              IF qr.r = << >> THEN StripTo(qr.q, e, ideal)
              ELSE [c |-> qr.q, e |-> e],
              qr.r /= << >>)

DivScaled(p, s, c1, e1, c2, e2, k) ==
    DivQuotient(p, s, NDivMod(NShift(c1, k), c2), e1 - e2 - k, e1 - e2)

\* Quotient of nonzero coefficients rounded to p digits: the dividend is
\* scaled so that the integer quotient has more than p digits.
DivRounded(p, s, c1, e1, c2, e2) ==
    DivScaled(p, s, c1, e1, c2, e2, Max2(0, Len(c2) - Len(c1) + p + 1))

\* decQuadDivide
d128_div(a, b) ==
    IF is_nan(a) \/ is_nan(b) THEN decNaNs(a, b)
    ELSE IF is_infinite(a) THEN
        (IF is_infinite(b) THEN NaN ELSE Inf(Xor(a.s, b.s)))
    ELSE IF is_infinite(b) THEN Fin(Xor(a.s, b.s), << >>, Etiny)
    ELSE IF d128_is_zero(b) THEN
        (IF d128_is_zero(a) THEN NaN ELSE Inf(Xor(a.s, b.s)))
    ELSE IF d128_is_zero(a) THEN
        Fin(Xor(a.s, b.s), << >>, Max2(Etiny, Min2(a.e - b.e, Etop)))
    ELSE DivRounded(DECQUAD_Pmax, Xor(a.s, b.s), a.c, a.e, b.c, b.e)

\* the remainder of the integer division qr at exponent m; NaN when the
\* integer quotient needs more than 34 digits (division impossible)
RemResult(s, qr, m) ==
    IF Len(qr.q) > DECQUAD_Pmax THEN NaN ELSE Fin(s, qr.r, m)

\* a and b nonzero, m the smaller exponent
RemAt(a, b, m) ==
    IF Adjusted(a) < Adjusted(b) THEN Fin(a.s, NShift(a.c, a.e - m), m)
    ELSE IF Adjusted(a) - Adjusted(b) >= DECQUAD_Pmax + 1 THEN NaN
    ELSE RemResult(a.s, NDivMod(NShift(a.c, a.e - m), NShift(b.c, b.e - m)), m)

\* decQuadRemainder: a - b * trunc(a / b); NaN when b is zero.
d128_rem(a, b) ==
    IF is_nan(a) \/ is_nan(b) THEN decNaNs(a, b)
    ELSE IF is_infinite(a) THEN NaN
    ELSE IF is_infinite(b) THEN a
    ELSE IF d128_is_zero(b) THEN NaN
    ELSE IF d128_is_zero(a)
    THEN Fin(a.s, << >>, Max2(Etiny, Min2(Min2(a.e, b.e), Etop)))
    ELSE RemAt(a, b, Min2(a.e, b.e))

\* comparison of coefficients of the same adjusted exponent
CmpPadded(c1, c2, n) ==
    LexCmp(c1 \o Zeros(n - Len(c1)), c2 \o Zeros(n - Len(c2)))

\* magnitude comparison of c1*10^e1 and c2*10^e2: -1, 0, 1
CmpMag(c1, e1, c2, e2) ==
    IF c1 = << >> THEN (IF c2 = << >> THEN 0 ELSE -1)
    ELSE IF c2 = << >> THEN 1
    ELSE IF e1 + Len(c1) /= e2 + Len(c2)
    THEN Sign3(e1 + Len(c1), e2 + Len(c2))
    ELSE CmpPadded(c1, c2, Max2(Len(c1), Len(c2)))

\* numerically equal values m = 0 are told apart by exponent when tot
CmpTotal(a, b, tot, sigl, m) ==
    IF m /= 0 THEN m * sigl
    ELSE IF ~tot \/ a.e = b.e THEN 0
    ELSE IF a.e > b.e THEN sigl ELSE -sigl

CmpSigned(a, b, tot, sigl, bothZero) ==
    IF a.s = 1 /\ b.s = 0 THEN (IF bothZero /\ ~tot THEN 0 ELSE -1)
    ELSE IF a.s = 0 /\ b.s = 1 THEN (IF bothZero /\ ~tot THEN 0 ELSE 1)
    ELSE IF is_infinite(a) THEN (IF is_infinite(b) THEN 0 ELSE sigl)
    ELSE IF is_infinite(b) THEN -sigl
    ELSE CmpTotal(a, b, tot, sigl, CmpMag(a.c, a.e, b.c, b.e))

\* decNumCompare of two non-NaN values; with tot, numerically equal values
\* are told apart by sign and exponent (the total ordering)
decNumCompare(a, b, tot) ==
    CmpSigned(a, b, tot, IF a.s = 1 THEN -1 ELSE 1,
              d128_is_zero(a) /\ d128_is_zero(b))

\* -1, 0, 1 as a d128
CompareResult(r) ==
    IF r = 0 THEN Fin(0, << >>, 0) ELSE Fin(IF r < 0 THEN 1 ELSE 0, <<1>>, 0)

\* decQuadCompare: NaN, or -1, 0, 1 as a d128
d128_compare(a, b) ==
    IF is_nan(a) \/ is_nan(b) THEN decNaNs(a, b)
    ELSE CompareResult(decNumCompare(a, b, FALSE))

\* decQuadMax / decQuadMin: a quiet NaN loses against a number; r compares
\* the numbers in the total ordering
MaxMin(a, b, r) ==
    IF is_nan(a) THEN (IF is_nan(b) \/ a.k = "snan" THEN decNaNs(a, b) ELSE b)
    ELSE IF is_nan(b) THEN (IF b.k = "snan" THEN decNaNs(a, b) ELSE a)
    ELSE IF r >= 0 THEN a ELSE b

d128_max(a, b) == MaxMin(a, b, decNumCompare(a, b, TRUE))
d128_min(a, b) == MaxMin(a, b, -decNumCompare(a, b, TRUE))

\* decQuadAbs
d128_abs(a) == IF is_nan(a) THEN decNaNs(a, a) ELSE [a EXCEPT !.s = 0]

\* decQuadMinus: 0 - a; a zero result is never negative
d128_neg(a) ==
    IF is_nan(a) THEN decNaNs(a, a)
    ELSE IF d128_is_zero(a) THEN [a EXCEPT !.s = 0]
    ELSE [a EXCEPT !.s = Flip(a.s)]

(***************************************************************************)
(* d128::pow: decNumberPower on the operands converted to decNumber, the   *)
(* result converted back (decimal128FromNumber).                           *)
(***************************************************************************)
\* decGetInt: whether b is a whole number, and its magnitude's digits
IsWhole(b) == b.e >= 0 \/ b.c = << >> \/
              (-b.e < Len(b.c) /\ AllZero(SubSeq(b.c, Len(b.c) + b.e + 1, Len(b.c))))
WholeDigits(b) == IF b.c = << >> THEN << >>
                  ELSE IF b.e >= 0 THEN b.c \o Zeros(Min2(b.e, 12))
                  ELSE SubSeq(b.c, 1, Len(b.c) + b.e)
\* the integer path of decNumberPower takes the whole exponents that
\* decGetInt returns: up to 999999999, and down to -1999999997
UseInt(b) ==
    /\ is_finite(b) /\ IsWhole(b)
    /\ \/ Len(WholeDigits(b)) <= 9
       \/ /\ b.s = 1 /\ Len(WholeDigits(b)) = 10
          /\ NCmp(WholeDigits(b), <<1, 9, 9, 9, 9, 9, 9, 9, 9, 7>>) <= 0
IsOddInt(b) == is_finite(b) /\ IsWhole(b) /\ WholeDigits(b) /= << >> /\
               (b.e > 0 => FALSE) /\ Last(WholeDigits(b)) % 2 = 1

One == Fin(0, <<1>>, 0)

\* multiplication at working precision p
MulP(p, a, b) ==
    IF is_infinite(a) \/ is_infinite(b) THEN Inf(Xor(a.s, b.s))
    ELSE decFinalizeP(p, Xor(a.s, b.s), NMul(a.c, b.c), a.e + b.e, FALSE)

\* the accumulator h squared, and multiplied by a where the bit is set
PowBit(p, a, h, bit) ==
    After(h, MulP(p, IF bit = 1 THEN MulP(p, h, h) ELSE h,
                  IF bit = 1 THEN a ELSE h))

\* the raise-to-the-power loop: the bits of n from the top, squaring the
\* accumulator and multiplying it by a where the bit is set
RECURSIVE PowLoop(_, _, _)
PowLoop(p, a, n) ==
    IF n = 1 THEN After(a, PowBit(p, a, One, 1))
    ELSE After(a, PowBit(p, a, PowLoop(p, a, n \div 2), n % 2))

\* the result at working precision brought to the format
PowResult(r) ==
    After(r, IF is_infinite(r) THEN r ELSE decFinalize(r.s, r.c, r.e, FALSE))

\* a to the whole power b, b nonzero, at working precision p: a negative
\* power is the power of the reciprocal.  When the reciprocal overflows (a
\* is subnormal) the loop is left at once on the overflow status, the
\* accumulator still 1, and the result is 1 with the sign of the power
PowInt(p, a, b) ==
    IF b.s = 1 /\ is_infinite(DivRounded(p, a.s, <<1>>, 0, a.c, a.e))
    THEN Fin(IF IsOddInt(b) THEN a.s ELSE 0, <<1>>, 0)
    ELSE
    PowResult(PowLoop(p,
                      IF b.s = 1 THEN DivRounded(p, a.s, <<1>>, 0, a.c, a.e)
                      ELSE a,
                      DigitsNat(WholeDigits(b))))

(***************************************************************************)
(* The path of decNumberPower for an exponent that is not a whole number   *)
(* of the integer path: exp(ln(a) * b), each of decLnOp, decMultiplyOp and *)
(* decExpOp rounding its result to the working digits.  decLnOp and        *)
(* decExpOp are modelled by the value they approximate, rounded half even: *)
(* the logarithm and the exponential are summed as series on fixed-point   *)
(* numbers.                                                               *)
(***************************************************************************)
\* ln 2 and ln 10: the digits after the point of ln 2, and the digits of
\* ln 10, 100 places
Ln2 == <<
    6, 9, 3, 1, 4, 7, 1, 8, 0, 5, 5, 9, 9, 4, 5, 3, 0, 9, 4, 1, 7, 2, 3, 2,
    1, 2, 1, 4, 5, 8, 1, 7, 6, 5, 6, 8, 0, 7, 5, 5, 0, 0, 1, 3, 4, 3, 6, 0,
    2, 5, 5, 2, 5, 4, 1, 2, 0, 6, 8, 0, 0, 0, 9, 4, 9, 3, 3, 9, 3, 6, 2, 1,
    9, 6, 9, 6, 9, 4, 7, 1, 5, 6, 0, 5, 8, 6, 3, 3, 2, 6, 9, 9, 6, 4, 1, 8,
    6, 8, 7, 5 >>

Ln10 == <<
    2, 3, 0, 2, 5, 8, 5, 0, 9, 2, 9, 9, 4, 0, 4, 5, 6, 8, 4, 0, 1, 7, 9, 9,
    1, 4, 5, 4, 6, 8, 4, 3, 6, 4, 2, 0, 7, 6, 0, 1, 1, 0, 1, 4, 8, 8, 6, 2,
    8, 7, 7, 2, 9, 7, 6, 0, 3, 3, 3, 2, 7, 9, 0, 0, 9, 6, 7, 5, 7, 2, 6, 0,
    9, 6, 7, 7, 3, 5, 2, 4, 8, 0, 2, 3, 5, 9, 9, 7, 2, 0, 5, 0, 8, 9, 5, 9,
    8, 2, 9, 8, 3 >>

Ln2At(F) == SubSeq(Ln2, 1, F)
Ln10At(F) == SubSeq(Ln10, 1, F + 1)

\* aset.digits: MAXI(lhs->digits, set->digits) + 6 + 4
PowRealDigits == DECQUAD_Pmax + 10

\* the fixed-point numbers are held as Limbs limbs of four digits, the
\* first one before the point: Places places, the working digits and
\* their guard
Limbs == (PowRealDigits + 16) \div 4 + 1
Places == 4 * (Limbs - 1)

\* a less its last n digits
NDrop(a, n) == IF Len(a) <= n THEN << >> ELSE SubSeq(a, 1, Len(a) - n)

\* a * m for 0 <= m < 10^4
NTimes(a, m) == IF m = 0 \/ a = << >> THEN << >> ELSE NMulSmall(a, m)

\* the limbs of the number a at Places places, below 10^4, and back
LimbsOf(a) == Groups(a, Limbs, 4)
OfLimbs(A) == Strip(Ungroup(A, Limbs, 4))
LOne == <<1>> \o Zeros(Limbs - 1)

\* the limbs of the sums C with their carries: the limbs from k + 1 on are
\* in acc
RECURSIVE Carried(_, _, _, _)
Carried(C, k, carry, acc) ==
    IF k = 0 THEN acc
    ELSE After(carry, Carried(C, k - 1, (C[k] + carry) \div 10000,
                              <<(C[k] + carry) % 10000>> \o acc))

LAdd(A, B) == Carried(Tup([k \in 1..Limbs |-> A[k] + B[k]]), Limbs, 0, << >>)

\* A - B for A >= B
LSub(A, B) == Carried(Tup([k \in 1..Limbs |-> A[k] - B[k]]), Limbs, 0, << >>)

\* the sum of column k of the products of the limbs: the number of
\* elements of the bag that holds the pair (i, k + 1 - i) A[i] * B[k + 1 - i]
\* + 1 times, less one for each pair
Column(A, B, lo, hi, k) ==
    BagCardinality([i \in lo..hi |-> A[i] * B[k + 1 - i] + 1]) - (hi - lo + 1)

\* the product, the columns below limb Limbs + 1 left out
LCarried(C) == After(C, Carried(C, Limbs, C[Limbs + 1] \div 10000, << >>))
LMul(A, B) ==
    LCarried(Tup([k \in 1..(Limbs + 1) |->
                    IF k <= Limbs THEN Column(A, B, 1, k, k)
                    ELSE Column(A, B, 2, Limbs, k)]))

\* the quotient limbs of the limbs G from i on by d, 0 < d < 200000, r
\* carried in from the limbs before
RECURSIVE SmallQuot(_, _, _, _)
SmallQuot(G, d, i, r) ==
    IF i > Len(G) THEN << >>
    ELSE <<(r * 10000 + G[i]) \div d>> \o
         SmallQuot(G, d, i + 1, (r * 10000 + G[i]) % d)
LDiv(A, d) == SmallQuot(A, d, 1, 0)

\* A / 10^(4 m)
LDown(A, m) ==
    IF m = 0 THEN A
    ELSE IF m >= Limbs THEN Zeros(Limbs)
    ELSE Zeros(m) \o SubSeq(A, 1, Limbs - m)

\* numbers with a sign, and their sum
Signed(minus, mag) == [neg |-> minus, mag |-> mag]
SAdd(x, y) ==
    IF x.neg = y.neg THEN Signed(x.neg, NAdd(x.mag, y.mag))
    ELSE IF NCmp(x.mag, y.mag) >= 0 THEN Signed(x.neg, NSub(x.mag, y.mag))
    ELSE Signed(y.neg, NSub(y.mag, x.mag))

\* c at exponent e rounded to p digits, half even; a carry out of the top
\* digit gives p + 1 digits, the last one 0
RoundCarry(p, r, e) ==
    IF Len(r) > p THEN [c |-> Front(r), e |-> e + 1] ELSE [c |-> r, e |-> e]
RoundTo(p, c, e, sticky) ==
    IF Len(c) <= p THEN [c |-> c, e |-> e]
    ELSE RoundCarry(p, RoundDigits(c, Len(c) - p, sticky), e + (Len(c) - p))

\* a decNumber of the accumulator, r its coefficient and exponent
Acc(minus, r) == [neg |-> minus, c |-> r.c, e |-> r.e]

\* z + z^3 / 3 + z^5 / 5 + ... for z = Z / 10^(4 m): T is z^(2k + 1) and
\* acc the sum, both times 10^(4 m); Z2 is Z^2
RECURSIVE AtanhSum(_, _, _, _, _)
AtanhSum(T, Z2, m, k, acc) ==
    IF AllZero(T) THEN acc
    ELSE After(acc, AtanhSum(LDown(LMul(T, Z2), 2 * m), Z2, m, k + 1,
                             LAdd(acc, LDiv(T, 2 * k + 1))))
Atanh(Z, m) == After(Z, AtanhSum(Z, LMul(Z, Z), m, 0, Zeros(Limbs)))

\* 1 / d for d = D / 10^Places in [1.75, 2.5): r (2 - d r) n times over,
\* from the quotient of 10^8 by the first five digits of d
RECURSIVE Reciprocal(_, _, _)
Reciprocal(D, r, n) ==
    IF n = 0 THEN r
    ELSE After(r, Reciprocal(D, LMul(r, LSub(<<2>> \o Zeros(Limbs - 1),
                                             LMul(D, r))), n - 1))
LInverse(D) ==
    After(D, Reciprocal(D, <<0, 100000000 \div (D[1] * 10000 + D[2])>>
                           \o Zeros(Limbs - 2), 5))

\* ln w for w = 1 + u or 1 - u in [0.75, 1.5), less its sign, times
\* 10^(4 m): 2 atanh(u / (w + 1)); U is u * 10^(4 m), W1 is w + 1
LnReduced(U, W1, m) ==
    OfLimbs(Atanh(LMul(LimbsOf(U), LInverse(LimbsOf(W1))), m))

\* the limbs of zeros that u = U / 10^Places begins with after the point
LnZeros(U) == IF U = << >> THEN 0 ELSE (Places - Len(U)) \div 4

\* ln w for w = W / 10^Places, at Places + 4 m places
LnNear(W, U, m) ==
    After(U, NTimes(LnReduced(NShift(U, 4 * m), NAdd(W, <<1>> \o Zeros(Places)), m), 2))
LnOfReduced(W, S) ==
    After(W, IF NCmp(W, S) < 0 THEN Signed(TRUE, NSub(S, W))
             ELSE Signed(FALSE, NSub(W, S)))

\* m in [0.3, 3) times 2^-j, in [0.75, 1.5)
LnHalved(M, j) ==
    IF j = -2 THEN NMulSmall(M, 4)
    ELSE IF j = -1 THEN NMulSmall(M, 2)
    ELSE IF j = 0 THEN M
    ELSE NDrop(NMulSmall(M, 5), 1)

\* the power of 2 that brings m = M / 10^Places into [0.75, 1.5)
LnTwos(M) ==
    IF NCmp(M, <<3, 7, 5>> \o Zeros(Places - 3)) < 0 THEN -2
    ELSE IF NCmp(M, <<7, 5>> \o Zeros(Places - 2)) < 0 THEN -1
    ELSE IF NCmp(M, <<1, 5>> \o Zeros(Places - 1)) < 0 THEN 0
    ELSE 1

\* ln(m * 10^E) = ln(m * 2^-j) + j ln 2 + E ln 10, u the distance of
\* m * 2^-j from 1 with its sign: its digits at exponent e
LnSum(u, j, E, m) ==
    After(u, [s |-> SAdd(SAdd(Signed(u.neg, LnNear(IF u.neg
                                                   THEN NSub(<<1>> \o Zeros(Places), u.mag)
                                                   ELSE NAdd(<<1>> \o Zeros(Places), u.mag),
                                                   u.mag, m)),
                              Signed(j < 0, NTimes(Ln2At(Places + 4 * m),
                                                   IF j < 0 THEN -j ELSE j))),
                         Signed(E < 0, NTimes(Ln10At(Places + 4 * m),
                                              IF E < 0 THEN -E ELSE E))),
              e |-> -(Places + 4 * m)])
LnParts(u, j, E) == After(u, LnSum(u, j, E, LnZeros(u.mag)))
LnFrom(M, j, E) ==
    LnParts(LnOfReduced(LnHalved(M, j), <<1>> \o Zeros(Places)), j, E)

\* c * 10^e = m * 10^E with m in [0.3, 3): m at Places places, and E
LnMant(c) ==
    c \o Zeros(Places - (IF c[1] >= 3 THEN Len(c) ELSE Len(c) - 1))
LnExp(c, e) == IF c[1] >= 3 THEN e + Len(c) ELSE e + Len(c) - 1

LnRounded(L) ==
    After(L, Acc(L.s.neg, RoundTo(PowRealDigits, L.s.mag, L.e, TRUE)))
LnOf(M, E) == After(M, LnRounded(LnFrom(M, LnTwos(M), E)))

\* the logarithm of c * 10^e, c nonzero, c * 10^e not 1
decLnOp(c, e) == LnOf(LnMant(c), LnExp(c, e))

\* the product of the accumulator and b
decMultiplyOp(L, b) ==
    After(L, Acc(L.neg /= (b.s = 1),
                 RoundTo(PowRealDigits, NMul(L.c, b.c), L.e + b.e, FALSE)))

\* 1 + s + s^2 / 2 + s^3 / 6 + ...: T is s^n / n!
RECURSIVE ExpSum(_, _, _, _)
ExpSum(T, s, n, acc) ==
    IF AllZero(T) THEN acc
    ELSE After(acc, ExpSum(LDiv(LMul(T, s), n + 1), s, n + 1, LAdd(acc, T)))

\* V squared n times
RECURSIVE ExpSquared(_, _)
ExpSquared(V, n) ==
    IF n = 0 THEN V ELSE After(V, ExpSquared(LMul(V, V), n - 1))

\* e^r for r = R / 10^Places in [0, ln 10]: the 32nd power of e^(r / 32)
ExpSmall(s) == After(s, ExpSquared(ExpSum(s, s, 1, LOne), 5))
ExpOf(R) == OfLimbs(ExpSmall(LDiv(LimbsOf(R), 32)))

\* e^p for p = q ln 10 + r, and e^-p = 10^(-q - 1) e^(ln 10 - r)
ExpSplit(minus, q, r) ==
    After(r, IF minus
             THEN RoundTo(PowRealDigits, ExpOf(NSub(Ln10At(Places), r)),
                          -Places - q - 1, TRUE)
             ELSE RoundTo(PowRealDigits, ExpOf(r), q - Places, TRUE))

\* p = P / 10^Places less q ln 10, for q the whole part of p / ln 10 or
\* one less
ExpLess(P, q) ==
    NSub(P, NAdd(NShift(NTimes(Ln10At(Places), q \div 10000), 4),
                 NTimes(Ln10At(Places), q % 10000)))
ExpRest(minus, q, r) ==
    After(r, IF NCmp(r, Ln10At(Places)) >= 0
             THEN ExpSplit(minus, q + 1, NSub(r, Ln10At(Places)))
             ELSE ExpSplit(minus, q, r))

\* q from the digits of p down to the fourth place: ln 10 < 2.3026
ExpWhole(minus, P, q) == ExpRest(minus, q, ExpLess(P, q))
ExpParts(minus, P) ==
    After(P, ExpWhole(minus, P, DigitsNat(NDrop(P, Places - 4)) \div 23026))

\* the magnitude of the accumulator at Places places
ExpFixed(c, e) ==
    IF e + Places >= 0 THEN c \o Zeros(e + Places) ELSE NDrop(c, -(e + Places))

\* the exponential of the accumulator; the exponential of a number of six
\* digits or more before the point is beyond every exponent of the format
decExpOp(P) ==
    After(P, IF P.e + Len(P.c) > 5
             THEN [c |-> <<1>>, e |-> IF P.neg THEN -100000 ELSE 100000]
             ELSE ExpParts(P.neg, ExpFixed(P.c, P.e)))

\* the accumulator brought to the format (decCopyFit, decFinish)
PowFit(r) == After(r, decFinalize(0, r.c, r.e, FALSE))

\* a positive a to the power b, b nonzero and not of the integer path: a
\* equal to 1 gives 1, padded to the precision when b is not whole
PowReal(a, b) ==
    IF decNumCompare(a, One, FALSE) = 0
    THEN (IF IsWhole(b) THEN One
          ELSE Fin(0, <<1>> \o Zeros(DECQUAD_Pmax - 1), -(DECQUAD_Pmax - 1)))
    ELSE PowFit(decExpOp(decMultiplyOp(decLnOp(a.c, a.e), b)))

\* an infinite power of a, c1 comparing a with 1
PowInfinite(b, c1) ==
    IF c1 < 0 THEN (IF b.s = 1 THEN Inf(0) ELSE Fin(0, << >>, 0))
    ELSE IF c1 = 0
    THEN Fin(0, <<1>> \o Zeros(DECQUAD_Pmax - 1), -(DECQUAD_Pmax - 1))
    ELSE (IF b.s = 0 THEN Inf(0) ELSE Fin(0, << >>, 0))

\* neg: the sign of an odd power of a negative base
PowSigned(a, b, neg) ==
    IF is_nan(a) \/ is_nan(b) THEN decNaNs(a, b)
    ELSE IF is_infinite(b) THEN
        (IF a.s = 1 /\ ~d128_is_zero(a) THEN NaN
         ELSE PowInfinite(b, decNumCompare(a, One, FALSE)))
    ELSE IF is_infinite(a) THEN
        (IF d128_is_zero(b) THEN One
         ELSE IF a.s = 1 /\ ~IsWhole(b) THEN NaN
         ELSE IF b.s = 0 THEN Inf(neg) ELSE Fin(neg, << >>, 0))
    ELSE IF d128_is_zero(a) THEN
        (IF d128_is_zero(b) THEN NaN
         ELSE IF b.s = 1 THEN Inf(neg) ELSE Fin(neg, << >>, 0))
    ELSE IF ~UseInt(b) THEN (IF a.s = 1 THEN NaN ELSE PowReal(a, b))
    ELSE IF d128_is_zero(b) THEN One
    ELSE PowInt(DECQUAD_Pmax + (Len(b.c) + b.e) + 2, a, b)

d128_pow(a, b) == PowSigned(a, b, IF a.s = 1 /\ IsOddInt(b) THEN 1 ELSE 0)

(***************************************************************************)
(* Text: decQuadFromString (the grammar of d128::from_str) and             *)
(* decQuadToString (d128's Display, to-scientific-string).                 *)
(***************************************************************************)
DigitChars == <<"0", "1", "2", "3", "4", "5", "6", "7", "8", "9">>
IsDigit(ch) == \E d \in 1..10 : DigitChars[d] = ch
DigitVal(ch) == (CHOOSE d \in 1..10 : DigitChars[d] = ch) - 1
IsSign(ch) == ch \in {"+", "-"}

Lower(ch) == CASE ch = "I" -> "i" [] ch = "N" -> "n" [] ch = "F" -> "f"
               [] ch = "A" -> "a" [] ch = "S" -> "s" [] ch = "T" -> "t"
               [] ch = "Y" -> "y" [] ch = "E" -> "e" [] OTHER -> ch
LowerText(t) == [i \in 1..Len(t) |-> Lower(t[i])]

DigitVals(ds) == [i \in 1..Len(ds) |-> DigitVal(ds[i])]
DigitsOf(t) == DigitVals(SelectSeq(t, IsDigit))
AllDigits(t) == \A i \in 1..Len(t) : IsDigit(t[i])
IsPrefix(p, t) == Len(p) <= Len(t) /\ SubSeq(t, 1, Len(p)) = p

\* value of an exponent's digits n, its leading zeros skipped: an exponent
\* of more than four digits (DECEMAXD) is read as twice Emax, whatever its
\* digits and whatever the length of the coefficient
ExpNat(n) == IF Len(n) > 4 THEN 2 * DECQUAD_Emax ELSE DigitsNat(n)
ExpValue(ds) == ExpNat(Strip(ds))

\* the result of decQuadFromString: the value, and whether the text was
\* rejected (DEC_Conversion_syntax, the value then NaN)
Read(v) == [val |-> v, syntax |-> FALSE]
SyntaxError == [val |-> NaN, syntax |-> TRUE]

\* [s]NaN with the payload digits c
ReadNaN(sg, signalling, body, c) ==
    IF AllDigits(body) /\ Len(c) < DECQUAD_Pmax
    THEN Read([k |-> IF signalling THEN "snan" ELSE "nan",
               s |-> sg, c |-> c, e |-> 0])
    ELSE SyntaxError

\* a number: mant before the exponent letter (dots the positions of its
\* points), hasE whether the letter is there, expo what follows it, xs that
\* less its sign
ReadNumber(sg, mant, dots, hasE, expo, xs) ==
    IF /\ \A i \in 1..Len(mant) : IsDigit(mant[i]) \/ mant[i] = "."
       /\ Cardinality(dots) <= 1
       /\ \E i \in 1..Len(mant) : IsDigit(mant[i])
       /\ ~hasE \/ (xs /= << >> /\ AllDigits(xs))
    THEN Read(decFinalize(sg, Strip(DigitsOf(mant)),
                          (IF ~hasE THEN 0
                           ELSE IF expo[1] = "-" THEN -ExpValue(DigitsOf(xs))
                           ELSE ExpValue(DigitsOf(xs)))
                          - (IF dots = {} THEN 0 ELSE Len(mant) - MinOf(dots)),
                          FALSE))
    ELSE SyntaxError

ReadParts(sg, mant, hasE, expo) ==
    ReadNumber(sg, mant, {i \in 1..Len(mant) : mant[i] = "."}, hasE, expo,
               IF expo /= << >> /\ IsSign(expo[1]) THEN Tail(expo) ELSE expo)

\* ep: the position of the exponent letter, past the end when there is none
ReadSplit(sg, low, ep) ==
    ReadParts(sg, SubSeq(low, 1, ep - 1), ep <= Len(low),
              SubSeq(low, ep + 1, Len(low)))

\* body: the payload of a NaN
ReadPayload(sg, signalling, body) ==
    ReadNaN(sg, signalling, body, Strip(DigitsOf(body)))

\* low: the text less its sign, in lower case
ReadUnsigned(sg, low) ==
    IF low = <<"i", "n", "f">> \/
       low = <<"i", "n", "f", "i", "n", "i", "t", "y">>
    THEN Read(Inf(sg))
    ELSE IF IsPrefix(<<"n", "a", "n">>, low)
    THEN ReadPayload(sg, FALSE, SubSeq(low, 4, Len(low)))
    ELSE IF IsPrefix(<<"s", "n", "a", "n">>, low)
    THEN ReadPayload(sg, TRUE, SubSeq(low, 5, Len(low)))
    ELSE ReadSplit(sg, low,
                   MinOf({i \in 1..(Len(low) + 1) :
                             i = Len(low) + 1 \/ low[i] = "e"}))

\* decQuadFromString: the d128 read from text t.
\*   [sign] digits [. digits] [E [sign] digits] | [sign] Inf[inity]
\*   | [sign] [s]NaN[digits]
decQuadFromString(t) ==
    ReadUnsigned(IF t /= << >> /\ t[1] = "-" THEN 1 ELSE 0,
                 LowerText(IF t /= << >> /\ IsSign(t[1]) THEN Tail(t) ELSE t))

CharsOf(ds) == [i \in 1..Len(ds) |-> DigitChars[ds[i] + 1]]
AbsInt(n) == IF n < 0 THEN -n ELSE n
NatChars(n) == IF n = 0 THEN <<"0">> ELSE CharsOf(NatDigits(n))

\* the digits ds of a finite value at exponent e, adj its adjusted exponent:
\* plain notation, or scientific
ShowFinite(sg, ds, n, e, adj) ==
    IF e <= 0 /\ adj >= -6
    THEN IF e = 0 THEN sg \o ds
         ELSE IF n > -e
         THEN sg \o SubSeq(ds, 1, n + e) \o <<".">> \o SubSeq(ds, n + e + 1, n)
         ELSE sg \o <<"0", ".">> \o CharsOf(Zeros(-e - n)) \o ds
    ELSE sg \o <<ds[1]>> \o (IF n > 1 THEN <<".">> \o Tail(ds) ELSE << >>)
            \o <<"E", IF adj >= 0 THEN "+" ELSE "-">> \o NatChars(AbsInt(adj))

ShowSigned(v, sg) ==
    IF v.k = "inf" THEN sg \o <<"I", "n", "f", "i", "n", "i", "t", "y">>
    ELSE IF v.k = "nan" THEN sg \o <<"N", "a", "N">> \o CharsOf(v.c)
    ELSE IF v.k = "snan" THEN sg \o <<"s", "N", "a", "N">> \o CharsOf(v.c)
    ELSE ShowFinite(sg, IF v.c = << >> THEN <<"0">> ELSE CharsOf(v.c),
                    Digits(v.c), v.e, v.e + Digits(v.c) - 1)

\* decQuadToString
decQuadToString(v) == ShowSigned(v, IF v.s = 1 THEN <<"-">> ELSE << >>)

(***************************************************************************)
(* Machine numbers met by the conversions and by deserialization.          *)
(* An integer (i32, u32, i64, u64) is [neg, mag], mag the digits of its    *)
(* magnitude.  An f64 is [k |-> "num", s, m, e] of value m * 2^e with m    *)
(* the digits of the 53-bit significand (2^52 <= m < 2^53, smaller only    *)
(* for e = -1074; zero is m = << >>), or [k |-> "inf", s], or              *)
(* [k |-> "nan"].                                                          *)
(***************************************************************************)
IntOf(neg, mag) == [neg |-> neg, mag |-> mag]
F64(s, m, e) == [k |-> "num", s |-> s, m |-> m, e |-> e]
F64Inf(s) == [k |-> "inf", s |-> s, m |-> << >>, e |-> 0]
F64NaN == [k |-> "nan", s |-> 0, m |-> << >>, e |-> 0]

\* h squared, and multiplied by b where the bit is set
NPowSquared(b, sq, bit) == After(sq, IF bit = 1 THEN NMulSmall(sq, b) ELSE sq)
NPowBit(b, h, bit) == After(h, NPowSquared(b, NMul(h, h), bit))

\* b^n for a small b
RECURSIVE NPow(_, _)
NPow(b, n) ==
    IF n = 0 THEN <<1>> ELSE NPowBit(b, NPow(b, n \div 2), n % 2)

TwoTo52 == <<4, 5, 0, 3, 5, 9, 9, 6, 2, 7, 3, 7, 0, 4, 9, 6>>

\* d128::from of an integer: exact, exponent 0
d128_from_int(n) ==
    Fin(IF n.neg /\ n.mag /= << >> THEN 1 ELSE 0, n.mag, 0)

\* c within lo..hi, the ends counted when incl
InRange(lo, hi, incl, c) ==
    IF incl THEN NCmp(lo, c) <= 0 /\ NCmp(c, hi) <= 0
    ELSE NCmp(lo, c) < 0 /\ NCmp(c, hi) < 0

\* N cut to its k leading digits, and the next number of k digits up
Down(N, k) == NShift(SubSeq(N, 1, k), Len(N) - k)
Up(N, k) == NShift(NAdd(SubSeq(N, 1, k), <<1>>), Len(N) - k)

\* the digits and exponent of the number c at exponent x, trailing zeros off
ShortestDigits(t) == [d |-> t.c, e |-> t.e]
ShortestOf(c, x) == After(c, ShortestDigits(StripTo(c, x, x + Len(c))))

\* of the candidates d below and u above N (din, uin: within the range) the
\* nearer to N, cmp comparing their distances, the upper one on a tie
ShortestPick(N, k, d, u, din, uin, cmp) ==
    IF ~uin THEN d
    ELSE IF ~din THEN u
    ELSE IF cmp < 0 THEN d
    ELSE u

ShortestBetween(N, lo, hi, incl, k, d, u) ==
    After(d, After(u, ShortestPick(N, k, d, u, InRange(lo, hi, incl, d), InRange(lo, hi, incl, u),
                 NCmp(NSub(N, d), NSub(u, N)))))

\* k: the least number of digits with a candidate within the range
ShortestAt(N, x, lo, hi, incl, k) ==
    After(k, ShortestOf(IF Len(N) <= k THEN N
               ELSE ShortestBetween(N, lo, hi, incl, k, Down(N, k), Up(N, k)),
               x))

\* the numbers of lo..hi read back as the f64 whose value is N
ShortestIn(N, x, lo, hi, incl) ==
    After(lo, After(hi, ShortestAt(N, x, lo, hi, incl,
               MinOf({k \in 1..17 : \/ Len(N) <= k
                                    \/ InRange(lo, hi, incl, Down(N, k))
                                    \/ InRange(lo, hi, incl, Up(N, k))}))))

\* H, Hlo: the half-distances to the neighbours above and below
ShortestAround(v, N, x, H, Hlo) ==
    After(N, After(H, After(Hlo, ShortestIn(N, x, NSub(N, Hlo), NAdd(N, H), Last(v.m) % 2 = 0))))

\* P: the power of 2 or of 5 that makes the value an integer at exponent x
ShortestScaled(v, P, x) ==
    After(P, ShortestAround(v, NShift(NMul(v.m, P), 2), x, NMulSmall(P, 50),
                            IF v.m = TwoTo52 /\ v.e > -1074
                            THEN NMulSmall(P, 25) ELSE NMulSmall(P, 50)))

\* The digits and decimal exponent that f64's Display prints: the shortest
\* digit string that reads back as the same f64 (the nearest to it among
\* the shortest).  The value and the half-distances to its neighbours are
\* held exactly, as integers at decimal exponent x.
f64_shortest(v) ==
    ShortestScaled(v, NPow(IF v.e >= 0 THEN 2 ELSE 5, AbsInt(v.e)),
                   IF v.e >= 0 THEN -2 ELSE v.e - 2)

\* the digits ds at exponent e in positional notation
Positional(sg, ds, n, e) ==
    IF e >= 0 THEN sg \o ds \o CharsOf(Zeros(e))
    ELSE IF n > -e
    THEN sg \o SubSeq(ds, 1, n + e) \o <<".">> \o SubSeq(ds, n + e + 1, n)
    ELSE sg \o <<"0", ".">> \o CharsOf(Zeros(-e - n)) \o ds

ShowShortest(sg, sh) == After(sh, Positional(sg, CharsOf(sh.d), Len(sh.d), sh.e))

ShowF64(v, sg) ==
    IF v.k = "nan" THEN <<"N", "a", "N">>
    ELSE IF v.k = "inf" THEN sg \o <<"i", "n", "f">>
    ELSE IF v.m = << >> THEN sg \o <<"0">>
    ELSE ShowShortest(sg, f64_shortest(v))

\* f64::to_string: positional notation, never an exponent
f64_to_string(v) == ShowF64(v, IF v.s = 1 THEN <<"-">> ELSE << >>)

\* Hash for d128 feeds the hasher the sixteen bytes of the encoding: the
\* sign, the combination and exponent continuation fields (the class, the
\* biased exponent) and the 34 coefficient digits.  Two d128 have the same
\* bytes exactly when these agree.
d128_bytes(v) ==
    IF v.k = "fin"
    THEN <<v.s, "fin", v.e - Etiny, Zeros(DECQUAD_Pmax - Len(v.c)) \o v.c>>
    ELSE <<v.s, v.k, 0, Zeros(DECQUAD_Pmax - Len(v.c)) \o v.c>>

\* d128::from_str: decQuadFromString under the thread's context; the result
\* is always Ok, text that is no number reads as NaN
d128_from_str(s) == [is_ok |-> TRUE, val |-> decQuadFromString(s).val]

\* None when the comparison is NaN
OrderingOf(c) ==
    IF is_nan(c) THEN "None"
    ELSE IF d128_is_zero(c) THEN "Equal"
    ELSE IF c.s = 1 THEN "Less" ELSE "Greater"

\* d128::partial_cmp: decQuadCompare
d128_partial_cmp(a, b) == OrderingOf(d128_compare(a, b))

d128_eq(a, b) == d128_partial_cmp(a, b) = "Equal"

(***************************************************************************)
(* Decimal: the newtype around d128 (a Decimal is modelled by its payload) *)
(* and the Result values of its fallible operations.                       *)
(***************************************************************************)
Ok(v) == [ok |-> TRUE, val |-> v]
Err(e) == [ok |-> FALSE, err |-> e]

\* Result::map_err with a constant error
map_err(r, e) == IF r.ok THEN r ELSE Err(e)

zero == Fin(0, << >>, 0)
default == zero

max(self, other) == d128_max(self, other)
min(self, other) == d128_min(self, other)
abs(self) == d128_abs(self)
mul_add(self, a, b) == d128_mul_add(self, a, b)
is_negative(self) == d128_is_negative(self)
is_zero(self) == d128_is_zero(self)
pow(self, exp) == d128_pow(self, exp)

hash(self) == d128_bytes(self)

\* from_str after `let val = d128::from_str(s)`
from_str_val(val) ==
    IF val.is_ok
    THEN IF is_nan(val.val) THEN Err("NaN is not supported")
         ELSE IF is_infinite(val.val) THEN Err("Infinity is not supported")
         ELSE Ok(val.val)
    ELSE Err("Failed to parse")

from_str(s) == from_str_val(d128_from_str(s))

\* a Display that drops the sign
to_string_unsigned(self) == ShowSigned(self, << >>)

to_string(self) == decQuadToString(self)

\* a comparison of the representations, where `==` compares the values
eq_by_representation(self, other) == self = other

eq(self, other) == d128_eq(self, other)
partial_cmp(self, other) == d128_partial_cmp(self, other)

\* cmp after `let res = self.0.partial_cmp(&other.0)`
cmp_res(res) == IF res = "None" THEN "panic" ELSE res

\* a cmp with its operands exchanged
cmp_exchanged(self, other) == cmp_res(d128_partial_cmp(other, self))

cmp(self, other) == cmp_res(d128_partial_cmp(self, other))

from_i32(val) == d128_from_int(val)
from_u32(val) == d128_from_int(val)
from_u64(val) == d128_from_int(val)
from_i64(val) == d128_from_int(val)

\* unary_op!
neg(self) == d128_neg(self)

\* binary_op!
add(self, other) == d128_add(self, other)
sub(self, other) == d128_sub(self, other)
mul(self, other) == d128_mul(self, other)

\* guarded_binary_op! without its check, and with a check for NaN alone
guarded_unchecked(val) == Ok(val)
guarded_nan_only(val) ==
    IF is_nan(val) THEN Err("Only finite value are supported") ELSE Ok(val)

\* guarded_binary_op!: the result of the d128 operation val, kept if finite
guarded(val) ==
    IF is_finite(val) THEN Ok(val) ELSE Err("Only finite value are supported")

div(self, other) == guarded(d128_div(self, other))
rem(self, other) == guarded(d128_rem(self, other))

(***************************************************************************)
(* serde: a Decimal is serialized as the string of its text.  A value of   *)
(* the data model is [shape, v]; a character is held as the text of one    *)
(* character, an f32 as the f64 of the same value.  The crate implements   *)
(* Serialize and Deserialize twice, in serde_impl.rs and in                *)
(* pure_decimal.rs; a build holds one of the two.                          *)
(***************************************************************************)
Data(shape, v) == [shape |-> shape, v |-> v]

\* serde's defaults for the methods a Visitor leaves out: visit_char hands
\* the character on to visit_str as a string, visit_i8, visit_i16 and
\* visit_i32 hand on to visit_i64, visit_u8, visit_u16 and visit_u32 to
\* visit_u64, visit_f32 to visit_f64
Forwarded(d) ==
    IF d.shape = "char" THEN Data("str", d.v)
    ELSE IF d.shape \in {"i8", "i16", "i32"} THEN Data("i64", d.v)
    ELSE IF d.shape \in {"u8", "u16", "u32"} THEN Data("u64", d.v)
    ELSE IF d.shape = "f32" THEN Data("f64", d.v)
    ELSE d

invalid_value(unexp, exp) ==
    [kind |-> "invalid_value", unexpected |-> unexp, expected |-> exp]
invalid_type(unexp, exp) ==
    [kind |-> "invalid_type", unexpected |-> unexp, expected |-> exp]

\* serde_impl.rs
serialize(self) == Data("str", to_string(self))

expecting == "a Decimal value"

visit_str(s) ==
    map_err(from_str(s), invalid_value(Data("str", s), expecting))

visit_f64(value) ==
    map_err(from_str(f64_to_string(value)),
            invalid_value(Data("f64", value), expecting))

visit_i64(value) == Ok(from_i64(value))
visit_u64(value) == Ok(from_u64(value))

\* the visitor's method for the shape d; the methods it leaves out and
\* serde does not hand on reject the value
SerdeDecimalVisitor(d) ==
    IF d.shape = "str" THEN visit_str(d.v)
    ELSE IF d.shape = "f64" THEN visit_f64(d.v)
    ELSE IF d.shape = "i64" THEN visit_i64(d.v)
    ELSE IF d.shape = "u64" THEN visit_u64(d.v)
    ELSE Err(invalid_type(d, expecting))

\* deserialize_any: the deserializer calls the visitor's method for the
\* shape it finds
deserialize(d) == SerdeDecimalVisitor(Forwarded(d))

\* pure_decimal.rs: the visitor has visit_str alone
pure_decimal_serialize(self) == Data("str", to_string(self))

pure_decimal_expecting == "a Decimal value"

pure_decimal_visit_str(s) ==
    map_err(from_str(s), invalid_value(Data("str", s), pure_decimal_expecting))

pure_decimal_SerdeDecimalVisitor(d) ==
    IF d.shape = "str" THEN pure_decimal_visit_str(d.v)
    ELSE Err(invalid_type(d, pure_decimal_expecting))

\* deserialize_str: a hint; the deserializer calls the visitor's method for
\* the shape it finds
pure_decimal_deserialize(d) == pure_decimal_SerdeDecimalVisitor(Forwarded(d))

(***************************************************************************)
(* A client of the crate: it binds up to two Decimals, a then b, each made *)
(* by a constructor (zero, from_str, the integer conversions,              *)
(* deserialization), and applies the crate's operations to them; out holds *)
(* the last operation, its inputs and what it returned.  Text printed or   *)
(* data serialized by the last operation can be read back.  build is the   *)
(* implementation of Serialize and Deserialize that the build holds.       *)
(***************************************************************************)
VARIABLES a, b, out, steps, build
vars == <<a, b, out, steps, build>>

\* operations of one run
MaxSteps == 3

\* text given to from_str
Literals == {
    <<"0">>, <<"0", ".", "0">>, <<"-", "0">>,
    <<"1", ".", "0">>, <<"1", ".", "0", "0">>, <<"1", ".", "1">>,
    <<"-", "1", ".", "5">>, <<"0", ".", "1">>,
    <<"9", "E", "6", "1", "4", "4">>, <<"1", "E", "-", "6", "1", "7", "6">>,
    <<"1", "E", "7", "0", "0", "0">>, <<"1", "E", "-", "7", "0", "0", "0">>,
    <<"1", "E", "-", "1", "0", "0", "0", "0">>,
    <<"1", "0", "E", "+", "0", "0", "0", "0", "5">>,
    <<"1", ".", "0", "0", "0", "0", "0", "0", "0", "0", "0", "0", "0", "0",
      "0", "0", "0", "0", "0", "0", "0", "0", "0", "0", "0", "0", "0", "0",
      "0", "0", "0", "0", "0", "0", "0", "1">>,
    <<"f", "o", "o">>, <<"N", "a", "N">>,
    <<"-", "I", "n", "f", "i", "n", "i", "t", "y">> }

TwoTo60 == <<1, 1, 5, 2, 9, 2, 1, 5, 0, 4, 6, 0, 6, 8, 4, 6, 9, 7, 6>>

\* integers given to the conversions
I32s == { IntOf(TRUE, <<7>>), IntOf(FALSE, <<2, 1, 4, 7, 4, 8, 3, 6, 4, 7>>) }
U32s == { IntOf(FALSE, << >>), IntOf(FALSE, <<4, 2, 9, 4, 9, 6, 7, 2, 9, 5>>) }
I64s == { IntOf(FALSE, <<1, 2, 3, 4>>),
          IntOf(TRUE, <<9, 2, 2, 3, 3, 7, 2, 0, 3, 6, 8, 5, 4, 7, 7, 5, 8, 0, 8>>) }
U64s == { IntOf(FALSE, <<3>>),
          IntOf(FALSE, <<1, 8, 4, 4, 6, 7, 4, 4, 0, 7, 3, 7, 0, 9, 5, 5, 1, 6, 1, 5>>) }

\* data given to deserialization
Inputs == <<
    Data("str", <<"1", "2", "3", "4">>),
    Data("str", <<"f", "o", "o">>),
    Data("str", <<"N", "a", "N">>),
    Data("f64", F64(0, <<5, 4, 2, 7, 1, 8, 9, 3, 9, 4, 7, 0, 2, 3, 3, 6>>, -42)),
    Data("f64", F64(0, <<5, 4, 2, 9, 6, 5, 2, 3, 0, 0, 7, 4, 8, 5, 5, 4>>, -42)),
    Data("f64", F64(0, TwoTo52, 8)),
    Data("f64", F64(0, <<8, 0, 1, 5, 4, 0, 8, 3, 2, 0, 1, 5, 6, 1, 5, 7>>, -2)),
    Data("f64", F64NaN),
    Data("f64", F64Inf(0)),
    Data("i64", IntOf(FALSE, <<1, 2, 3, 4>>)),
    Data("i64", IntOf(FALSE, TwoTo60)),
    Data("u64", IntOf(FALSE, <<1, 2, 3, 4>>)),
    Data("u64", IntOf(FALSE, TwoTo60)),
    Data("char", <<"5">>),
    Data("char", <<"x">>),
    Data("i32", IntOf(TRUE, <<7>>)),
    Data("u8", IntOf(FALSE, <<2, 5, 5>>)),
    Data("f32", F64(0, <<7, 2, 0, 5, 7, 5, 9, 5, 1, 1, 1, 6, 6, 9, 7, 6>>, -56)),
    Data("bool", TRUE),
    Data("unit", << >>) >>

Unbound == [set |-> FALSE]
Bound(v, op, in) == [set |-> TRUE, v |-> v, op |-> op, in |-> in]
Did(op, in, res) == [op |-> op, in |-> in, res |-> res]

\* the files a build may take the implementations of serde's traits from
Builds == {"serde_impl", "pure_decimal"}

Init ==
    /\ build \in Builds
    /\ a = Unbound
    /\ b = Unbound
    /\ out = Did("none", << >>, << >>)
    /\ steps = 0

\* a constructor has returned v: it is bound to a, or to b when a is bound
Bind(v, op, in) ==
    IF ~a.set THEN a' = Bound(v, op, in) /\ b' = b
    ELSE a' = a /\ b' = Bound(v, op, in)

\* an infallible constructor
Construct(op, in, v) ==
    /\ steps < MaxSteps
    /\ ~b.set
    /\ Bind(v, op, in)
    /\ out' = Did(op, in, v)
    /\ steps' = steps + 1
    /\ UNCHANGED build

\* a constructor returning a Result
TryConstruct(op, in, res) ==
    /\ steps < MaxSteps
    /\ ~b.set
    /\ IF res.ok THEN Bind(res.val, op, in) ELSE UNCHANGED <<a, b>>
    /\ out' = Did(op, in, res)
    /\ steps' = steps + 1
    /\ UNCHANGED build

\* an operation on a, and one on a and b
Unary(op, res) ==
    /\ steps < MaxSteps
    /\ a.set
    /\ out' = Did(op, <<a.v>>, res)
    /\ steps' = steps + 1
    /\ UNCHANGED build
    /\ UNCHANGED <<a, b>>

Binary(op, res) ==
    /\ steps < MaxSteps
    /\ a.set /\ b.set
    /\ out' = Did(op, <<a.v, b.v>>, res)
    /\ steps' = steps + 1
    /\ UNCHANGED build
    /\ UNCHANGED <<a, b>>

Zero == Construct("zero", << >>, zero)

\* text: a literal, or what to_string has just printed
FromStr ==
    \E s \in Literals \cup (IF out.op = "to_string" THEN {out.res} ELSE {}) :
        TryConstruct("from_str", s, from_str(s))

FromI32 == \E val \in I32s : Construct("from_i32", val, from_i32(val))
FromU32 == \E val \in U32s : Construct("from_u32", val, from_u32(val))
FromI64 == \E val \in I64s : Construct("from_i64", val, from_i64(val))
FromU64 == \E val \in U64s : Construct("from_u64", val, from_u64(val))

\* data: an input, or what serialize has just written
Deserialize ==
    /\ build = "serde_impl"
    /\ \/ \E i \in DOMAIN Inputs :
             TryConstruct("deserialize", Inputs[i], deserialize(Inputs[i]))
       \/ /\ out.op = "serialize"
          /\ TryConstruct("deserialize", out.res, deserialize(out.res))

PureDecimalDeserialize ==
    /\ build = "pure_decimal"
    /\ \/ \E i \in DOMAIN Inputs :
             TryConstruct("deserialize", Inputs[i],
                          pure_decimal_deserialize(Inputs[i]))
       \/ /\ out.op = "serialize"
          /\ TryConstruct("deserialize", out.res,
                          pure_decimal_deserialize(out.res))

Neg == Unary("neg", neg(a.v))
Abs == Unary("abs", abs(a.v))
IsNegative == Unary("is_negative", is_negative(a.v))
IsZero == Unary("is_zero", is_zero(a.v))
Hash == Unary("hash", hash(a.v))
Display == Unary("to_string", to_string(a.v))
Serialize == build = "serde_impl" /\ Unary("serialize", serialize(a.v))
PureDecimalSerialize ==
    /\ build = "pure_decimal"
    /\ Unary("serialize", pure_decimal_serialize(a.v))

Add == Binary("add", add(a.v, b.v))
Sub == Binary("sub", sub(a.v, b.v))
Mul == Binary("mul", mul(a.v, b.v))
Div == Binary("div", div(a.v, b.v))
Rem == Binary("rem", rem(a.v, b.v))
TakeMin == Binary("min", min(a.v, b.v))
TakeMax == Binary("max", max(a.v, b.v))
Eq == Binary("eq", eq(a.v, b.v))
PartialCmp == Binary("partial_cmp", partial_cmp(a.v, b.v))
Cmp == Binary("cmp", cmp(a.v, b.v))

\* a.mul_add(b, c), the addend one of the two
MulAdd ==
    /\ steps < MaxSteps
    /\ a.set /\ b.set
    /\ \E c \in {a.v, b.v} :
          out' = Did("mul_add", <<a.v, b.v, c>>, mul_add(a.v, b.v, c))
    /\ steps' = steps + 1
    /\ UNCHANGED build
    /\ UNCHANGED <<a, b>>

Pow == Binary("pow", pow(a.v, b.v))

Next ==
    \/ Zero \/ FromStr \/ FromI32 \/ FromU32 \/ FromI64 \/ FromU64
    \/ Deserialize \/ PureDecimalDeserialize
    \/ Neg \/ Abs \/ IsNegative \/ IsZero \/ Hash \/ Display
    \/ Serialize \/ PureDecimalSerialize
    \/ Add \/ Sub \/ Mul \/ Div \/ Rem \/ TakeMin \/ TakeMax \/ MulAdd \/ Pow
    \/ Eq \/ PartialCmp \/ Cmp

Spec == Init /\ [][Next]_vars


(***************************************************************************)
(* The properties claimed of the crate, each stated over the last          *)
(* operation (out) and the Decimals bound (a, b).                          *)
(***************************************************************************)

\* the operations that return a Decimal, and those that return a Result
DecimalOps == {"zero", "from_i32", "from_u32", "from_i64", "from_u64", "neg",
               "abs", "min", "max", "add", "sub", "mul", "mul_add", "pow"}
ResultOps == {"from_str", "deserialize", "div", "rem"}

BoundFinite(r) == r.set => is_finite(r.v)
ReturnedFinite(did) ==
    IF did.op \in DecimalOps THEN is_finite(did.res)
    ELSE did.op \in ResultOps /\ did.res.ok => is_finite(did.res.val)

\* C1 (I1): every Decimal there is, bound by a constructor or returned by an
\* operation (add, sub, mul, neg, abs, min, max, mul_add, pow, a successful
\* div or rem), holds a finite number, never a NaN or an infinity.
C1_EveryDecimalFinite == BoundFinite(a) /\ BoundFinite(b) /\ ReturnedFinite(out)

\* the d128 result that div or rem guards
RawResult(op, x, y) == IF op = "div" THEN d128_div(x, y) ELSE d128_rem(x, y)

GuardedAs(res, raw) ==
    /\ res.ok <=> is_finite(raw)
    /\ res.ok => res.val = raw
    /\ ~res.ok => res.err = "Only finite value are supported"

\* C2: div and rem return Ok with the result of the d128 operation exactly
\* when that result is finite; otherwise they return the error saying that
\* only finite values are supported, and no Decimal is made.
C2_GuardedIffFinite ==
    out.op \in {"div", "rem"} =>
        GuardedAs(out.res, RawResult(out.op, out.in[1], out.in[2]))

\* a division or a remainder of a Decimal other than zero has been refused
C2_Witness ==
    /\ out.op \in {"div", "rem"}
    /\ ~out.res.ok
    /\ ~is_zero(out.in[1])

\* C3 as claimed: a division by a Decimal other than zero succeeds, and a
\* division by zero fails.
C3_DivFailsOnlyByZero ==
    out.op = "div" => (out.res.ok <=> ~is_zero(out.in[2]))

\* 2 * 10^34 - 1
TwiceTop == <<1>> \o [i \in 1..DECQUAD_Pmax |-> 9]

\* |x / y| is at least (10^34 - 1/2) * 10^Etop, so that the quotient rounded
\* to 34 digits is beyond the largest finite number
QuotientOverflows(x, y) ==
    CmpMag(NMulSmall(x.c, 2), x.e, NMul(y.c, TwiceTop), y.e + Etop) >= 0

\* C3 as amended: a division succeeds exactly when the divisor is not zero
\* and the quotient, rounded to 34 digits, does not overflow; a division by
\* zero fails whatever the dividend.
C3_DivFailsByZeroOrOverflow ==
    out.op = "div" =>
        (out.res.ok <=>
            ~is_zero(out.in[2]) /\ ~QuotientOverflows(out.in[1], out.in[2]))

\* a division by a Decimal other than zero has been refused
C3_Witness ==
    /\ out.op = "div"
    /\ ~out.res.ok
    /\ ~is_zero(out.in[2])

FromStrAs(res, read) ==
    IF read.syntax THEN ~res.ok /\ res.err = "Failed to parse"
    ELSE IF ~is_finite(read.val)
    THEN ~res.ok /\ res.err \in {"NaN is not supported",
                                 "Infinity is not supported"}
    ELSE res.ok /\ res.val = read.val /\ is_finite(res.val)

\* C4: from_str has three disjoint outcomes: text that is no decimal number
\* gives the parse error; text that reads as a NaN or an infinity gives the
\* non-finite error; any other text gives Ok with a finite Decimal.
C4_ThreeOutcomes ==
    out.op = "from_str" => FromStrAs(out.res, decQuadFromString(out.in))

(***************************************************************************)
(* The number a literal denotes, read without rounding: its sign, its      *)
(* digits without leading or trailing zeros, and the exponent of the last  *)
(* of them.  Zero is one number, whatever its sign and exponent.           *)
(***************************************************************************)
Number(minus, c, e) == [neg |-> minus, c |-> c, e |-> e]
ZeroNumber == Number(FALSE, << >>, 0)

\* how many zeros end the digits d
ZerosAtEnd(d) ==
    CHOOSE n \in 0..Len(d) :
        /\ \A i \in (Len(d) - n + 1)..Len(d) : d[i] = 0
        /\ n = Len(d) \/ d[Len(d) - n] /= 0

LitScaled(minus, d, nz, e) ==
    IF d = << >> THEN ZeroNumber
    ELSE Number(minus, SubSeq(d, 1, Len(d) - nz), e + nz)

\* the exponent written after the letter
LitExp(x) ==
    IF x = << >> THEN 0
    ELSE IF x[1] = "-" THEN -DigitsNat(Strip(DigitVals(Tail(x))))
    ELSE IF x[1] = "+" THEN DigitsNat(Strip(DigitVals(Tail(x))))
    ELSE DigitsNat(Strip(DigitVals(x)))

\* the digits after the point of the mantissa
LitFraction(mant, dots) ==
    IF dots = {} THEN 0 ELSE Len(mant) - MinOf(dots)

LitDigits(minus, mant, d, x) ==
    LitScaled(minus, d, ZerosAtEnd(d),
              LitExp(x) - LitFraction(mant, {i \in 1..Len(mant) : mant[i] = "."}))

LitSplit(minus, t, ep) ==
    LitDigits(minus, SubSeq(t, 1, ep - 1), Strip(DigitsOf(SubSeq(t, 1, ep - 1))),
              SubSeq(t, ep + 1, Len(t)))

LitUnsigned(minus, t) ==
    LitSplit(minus, t, MinOf({i \in 1..Len(t) : t[i] \in {"E", "e"}}
                           \cup {Len(t) + 1}))

LitNumber(t) ==
    IF t[1] \in {"-", "+"} THEN LitUnsigned(t[1] = "-", Tail(t))
    ELSE LitUnsigned(FALSE, t)

\* the number is a decimal128 number: at most 34 digits, within the exponents
Representable(n) ==
    \/ n.c = << >>
    \/ /\ Len(n.c) <= DECQUAD_Pmax
       /\ n.e >= Etiny
       /\ n.e + Len(n.c) - 1 <= DECQUAD_Emax

\* a Decimal made of a literal, or by zero() (which default() calls)
OfLiteral(r) == r.set /\ r.op \in {"zero", "from_str"}
NumberOf(r) == IF r.op = "zero" THEN ZeroNumber ELSE LitNumber(r.in)

\* C5 as claimed: the Decimals of two literals are equal exactly when the
\* literals denote the same number.
C5_EqualIffSameNumber ==
    OfLiteral(a) /\ OfLiteral(b) =>
        (eq(a.v, b.v) <=> NumberOf(a) = NumberOf(b))

\* the digits of the exponent a literal is written with, leading zeros
\* apart, are at most four: the exponent is read as written
ExpWritten(t) ==
    Strip(DigitsOf(SubSeq(t, MinOf({i \in 1..Len(t) : t[i] \in {"E", "e"}}
                                   \cup {Len(t)}) + 1, Len(t))))
ShortExp(r) == r.op = "zero" \/ Len(ExpWritten(r.in)) <= 4

\* the number 1E-6000 written with an exponent of five digits, and with one
\* of four
LongLiteral ==
    <<"1">> \o [i \in 1..4000 |-> "0"] \o <<"E", "-", "1", "0", "0", "0", "0">>
ShortLiteral == <<"1", "E", "-", "6", "0", "0", "0">>

\* the exponent of five digits is read as -12288: the literal is accepted
\* and is zero, unequal to the Decimal of the same number written with an
\* exponent of four digits
LongExponentMisread ==
    /\ LitNumber(LongLiteral) = LitNumber(ShortLiteral)
    /\ Representable(LitNumber(LongLiteral))
    /\ from_str(LongLiteral).ok /\ from_str(ShortLiteral).ok
    /\ is_zero(from_str(LongLiteral).val)
    /\ ~eq(from_str(LongLiteral).val, from_str(ShortLiteral).val)

\* C5 as amended, for literals whose exponents have at most four digits:
\* literals that denote the same number give equal Decimals ("1.0" and
\* "1.00"; "0", "0.0" and zero()); equal Decimals come of the same number
\* when both literals are decimal128 numbers, read without rounding ("1.0"
\* and "1.1" differ).  A literal whose exponent has more digits is outside
\* both halves (a fact of from_str alone, looked at before any operation).
C5_EqualIffSameRepresentable ==
    /\ OfLiteral(a) /\ OfLiteral(b) /\ ShortExp(a) /\ ShortExp(b) =>
        /\ NumberOf(a) = NumberOf(b) => eq(a.v, b.v)
        /\ Representable(NumberOf(a)) /\ Representable(NumberOf(b))
               /\ eq(a.v, b.v) => NumberOf(a) = NumberOf(b)
    /\ steps = 0 => LongExponentMisread

\* two different literals of one number have given equal Decimals
C5_Witness ==
    /\ a.set /\ b.set
    /\ a.op = "from_str" /\ b.op = "from_str"
    /\ a.in /= b.in
    /\ NumberOf(a) = NumberOf(b)
    /\ a.v /= b.v
    /\ eq(a.v, b.v)

\* C6: Decimals that compare equal have the same hash, as "1.0" and "1.00".
C6_EqualHashEqual ==
    a.set /\ b.set /\ eq(a.v, b.v) => hash(a.v) = hash(b.v)

\* the Decimals of the literals
Decimals == {from_str(l).val : l \in {t \in Literals : from_str(t).ok}}

Reversed(r) == IF r = "Less" THEN "Greater" ELSE IF r = "Greater" THEN "Less" ELSE r

\* r, the result of x.cmp(y), is that of a total order
OrdersAs(x, y, r) ==
    /\ r \in {"Less", "Equal", "Greater"}
    /\ r = partial_cmp(x, y)
    /\ r = "Equal" <=> eq(x, y)
    /\ cmp(y, x) = Reversed(r)
    /\ \A z \in Decimals :
          /\ r /= "Greater" /\ cmp(y, z) /= "Greater" => cmp(x, z) /= "Greater"
          /\ r = "Less" /\ cmp(y, z) /= "Greater" => cmp(x, z) = "Less"
          /\ r = "Equal" => cmp(x, z) = cmp(y, z)

\* C7: cmp of two finite Decimals does not panic, returns what partial_cmp
\* returns, returns Equal exactly when the two are ==, and reversed when the
\* operands are exchanged, and is transitive: a total order.
C7_CmpTotalOrder ==
    out.op = "cmp" => OrdersAs(out.in[1], out.in[2], out.res)

\* cmp has found x less than y, with a Decimal greater than y
C7_Witness ==
    /\ out.op = "cmp"
    /\ out.res = "Less"
    /\ \E z \in Decimals : cmp(out.in[2], z) = "Less"

\* C8: the text to_string prints of a finite Decimal is read by from_str as
\* an equal Decimal; serialize writes that text as a string, and
\* deserialize reads what serialize wrote as an equal Decimal.
C8_RoundTrip ==
    /\ out.op = "from_str" /\ a.set /\ out.in = to_string(a.v) =>
           out.res.ok /\ eq(out.res.val, a.v)
    /\ out.op = "serialize" =>
           out.res.shape = "str" /\ out.res.v = to_string(out.in[1])
    /\ out.op = "deserialize" /\ a.set /\ out.in.shape = "str" =>
           (out.in.v = to_string(a.v) => out.res.ok /\ eq(out.res.val, a.v))

\* from_str has read text of to_string that differs from the literal the
\* Decimal was made of
C8_Witness ==
    /\ out.op = "from_str"
    /\ a.set /\ a.op = "from_str"
    /\ out.in = to_string(a.v)
    /\ out.in /= a.in
    /\ b.set /\ eq(b.v, a.v)

(***************************************************************************)
(* The integer a value of the data model denotes, if it denotes one: an    *)
(* integer, a float whose value m * 2^e is whole, a string of digits.      *)
(***************************************************************************)
Whole(minus, mag) == [int |-> TRUE, neg |-> minus /\ mag /= << >>, mag |-> mag]
NotWhole == [int |-> FALSE, neg |-> FALSE, mag |-> << >>]

\* m / 2^k when that is whole
WholeQuotient(minus, d) == IF AllZero(d.r) THEN Whole(minus, d.q) ELSE NotWhole

F64Whole(v) ==
    IF v.k /= "num" THEN NotWhole
    ELSE IF v.e >= 0 THEN Whole(v.s = 1, Strip(NMul(v.m, NPow(2, v.e))))
    ELSE WholeQuotient(v.s = 1, NDivMod(v.m, NPow(2, -v.e)))

\* d is what the visitor is handed: serde's forwarding is done
WholeOf(d) ==
    IF d.shape \in {"i64", "u64"} THEN Whole(d.v.neg, d.v.mag)
    ELSE IF d.shape = "f64" THEN F64Whole(d.v)
    ELSE IF d.shape = "str" /\ d.v /= << >> /\ AllDigits(d.v)
    THEN Whole(FALSE, Strip(DigitVals(d.v)))
    ELSE NotWhole

DataWhole(d) == WholeOf(Forwarded(d))

\* both Decimals are deserialized, from data denoting the integer n
BothOf(p, q, n) ==
    /\ p.set /\ q.set
    /\ p.op = "deserialize" /\ q.op = "deserialize"
    /\ n.int
    /\ DataWhole(q.in) = n

\* what the claim says of the deserialization of d, an integer or a float
\* as the visitor is handed it: an integer gives the Decimal n at exponent
\* 0, a float what from_str gives of its text
AcceptedAs(d, res) ==
    /\ d.shape \in {"i64", "u64"} =>
           /\ res.ok
           /\ res.val = Fin(IF WholeOf(d).neg THEN 1 ELSE 0, d.v.mag, 0)
    /\ d.shape = "f64" =>
           /\ res.ok = from_str(f64_to_string(d.v)).ok
           /\ res.ok => res.val = from_str(f64_to_string(d.v)).val

\* C9: deserialization accepts a string, an integer and a float; an integer
\* n, the float n.0 and the string "n" deserialize to equal Decimals; an
\* integer deserializes to the Decimal n at exponent 0 and never fails; a
\* float deserializes to what from_str reads of its default text.
C9_SameFromEveryShape ==
    /\ BothOf(a, b, DataWhole(a.in)) => eq(a.v, b.v)
    /\ out.op = "deserialize" => AcceptedAs(Forwarded(out.in), out.res)

\* the error of a deserialization that the visitor refuses, d as the
\* visitor is handed it
RefusedAs(d, res) ==
    /\ d.shape = "str" /\ ~from_str(d.v).ok =>
           /\ ~res.ok
           /\ res.err.kind = "invalid_value" /\ res.err.unexpected = d
    /\ d.shape = "f64" /\ ~from_str(f64_to_string(d.v)).ok =>
           /\ ~res.ok
           /\ res.err.kind = "invalid_value" /\ res.err.unexpected = d
    /\ d.shape \notin {"str", "f64", "i64", "u64"} =>
           /\ ~res.ok
           /\ res.err.kind = "invalid_type" /\ res.err.unexpected = d
    /\ ~res.ok => res.err.expected = "a Decimal value"

\* C10: a string from_str rejects is refused as an invalid value naming the
\* string, a float whose text from_str rejects as an invalid value naming
\* the float, a value of any other shape as an invalid type; the error says
\* that a Decimal value was expected, and no Decimal is made.
C10_Refusals ==
    out.op = "deserialize" =>
        /\ RefusedAs(Forwarded(out.in), out.res)
        /\ ~out.res.ok =>
               /\ DOMAIN out.res = {"ok", "err"}
               /\ ~(b.set /\ b.op = "deserialize" /\ b.in.shape = out.in.shape
                        /\ b.in = out.in)

=============================================================================
